---------------------------- MODULE Spec2Model ----------------------------
(* A model of the SQuID-Lab QuAM components: pulse-set expansion on a      *)
(* channel, the name-from-parent helpers, the default octave port of the  *)
(* wiring, the octave converters and their config entries, the root with  *)
(* its lazily opened connection, the root generated from a wiring, the    *)
(* qubit, the data path of a device and the active reset of a qubit.       *)
EXTENDS Integers, Sequences, FiniteSets, TLC

VARIABLES
    operations,   \* channel.operations of the xy channel: key -> operation
    fields,       \* the stored fields of the pulse sets: name -> (attr -> value)
    custom,       \* the user-defined PulseSet subclass: gates, individual, shared
    nwrites,      \* number of field writes made so far
    comps,        \* the components made so far: id -> type of parent, field values
    qubits,       \* root.qubits, a QuamDict in insertion order: <<key, component>>
    qubit_list,   \* root.qubit_list, a QuamList of components
    attrs,        \* the component-valued entries of root.__dict__: <<name, component>>
    slot,         \* where each component was put, kept up to date by the mutations
    wiring,       \* one wiring component: an IQ channel's or a feed line's ports
    channels,     \* the IQ channels of the tree, in the order of iterate_components
    LO_frequency, \* the LO frequency of each converter
    config,       \* the octave's section of the QUA config
    id,           \* the id of each converter
    IF_output,    \* IF_output_I and IF_output_Q of each down-converter
    RF_outputs,   \* octave.RF_outputs: key -> up-converter
    RF_inputs,    \* octave.RF_inputs: key -> down-converter
    pulse_sets,   \* the keys of qubit.pulse_sets
    T1,           \* qubit.T1
    thermalization_time_factor, \* qubit.thermalization_time_factor
    exists,       \* the paths that exist on the file system
    _qm,          \* root._qm: the cached machine
    _qmm,         \* root._qmm: the cached manager
    _config,      \* root._config: the cached configuration dictionary
    octaves,      \* the keys of root.octaves
    managers,     \* the QuantumMachinesManager objects constructed so far
    machines,     \* the machines open_qm has returned so far, and whether closed
    dicts,        \* the dictionaries generate_config has returned: their added keys
    arguments,    \* the arguments generate_empty_quam_single_feedline is given
    machine,      \* the root generate_empty_quam_single_feedline returned
    I_reset,      \* the QUA variable I_reset of active_reset
    counter,      \* the QUA variable counter of active_reset
    max_tries,    \* the max_tries active_reset was given
    threshold_g,  \* the threshold_g active_reset was given or took from the resonator
    pc,           \* where the processor stands in the program of active_reset
    events,       \* what the program of active_reset has done so far, in order
    last          \* the last call made: what was called, on what, and its outcome

pulseVars == <<operations, fields, custom, nwrites>>
treeVars == <<comps, qubits, qubit_list, attrs, slot>>
octaveVars == <<channels, LO_frequency, config, id, IF_output>>
converterVars == <<RF_outputs, RF_inputs>>
qubitVars == <<pulse_sets, T1, thermalization_time_factor>>
fsVars == <<exists>>
rootVars == <<_qm, _qmm, _config, octaves, managers, machines, dicts>>
generateVars == <<arguments, machine>>
resetVars == <<I_reset, counter, max_tries, threshold_g, pc, events>>
hostVars == <<converterVars, qubitVars, fsVars, rootVars, generateVars, resetVars>>
vars == <<operations, fields, custom, nwrites, comps, qubits, qubit_list, attrs,
          slot, wiring, channels, LO_frequency, config, id, IF_output,
          RF_outputs, RF_inputs, pulse_sets, T1, thermalization_time_factor,
          exists, _qm, _qmm, _config, octaves, managers, machines, dicts,
          arguments, machine, I_reset, counter, max_tries, threshold_g, pc,
          events, last>>

NoCall == [op |-> "none"]

(***************************************************************************)
(* Bounds of the model.                                                    *)
(***************************************************************************)
MaxVal == 2
MaxWrites == 2
MaxComponents == 3
MaxChannels == 2

(***************************************************************************)
(* Pulse sets (components/pulse_sets.py).                                  *)
(***************************************************************************)
Values == 0..MaxVal

\* The pulse sets of one qubit, by their key in qubit.pulse_sets.
PulseSets == {"drag_gaussian", "flattop_cosine", "custom"}

DragGaussianFields ==
    {"amplitude_90", "amplitude_180", "length", "sigma", "phase_x", "phase_y",
     "anharmonicity", "detuning", "alpha", "subtracted", "digital_marker"}

FlattopCosineFields == {"amplitude", "rise_fall_time"}

StoredFields(ps) ==
    IF ps = "drag_gaussian" THEN DragGaussianFields
    ELSE IF ps = "flattop_cosine" THEN FlattopCosineFields
    ELSE {}

\* A parameter handed to the pulse class is a reference to an attribute of a
\* pulse set, or a literal.
Ref(ps, attr) == <<"ref", ps, attr>>
Lit(s) == <<"lit", "", s>>

\* A pulse set that hands out the value the attribute has now, not a reference.
get_reference_copy(ps, attr) ==
    <<"lit", "",
      IF attr = "amplitude_m90" THEN -fields[ps]["amplitude_90"]
      ELSE IF attr = "negative_amplitude" THEN -fields[ps]["amplitude"]
      ELSE fields[ps][attr]>>

\* PulseSet.get_reference(attr): the reference names the attribute, it does
\* not hold the attribute's value.
get_reference(ps, attr) == Ref(ps, attr)

\* PulseSetDragGaussian.amplitude_m90
amplitude_m90(ps) == -fields[ps]["amplitude_90"]

\* PulseSetFlattopCosine.negative_amplitude
negative_amplitude(ps) == -fields[ps]["amplitude"]

\* Reading attribute attr of pulse set ps: a property is computed at the
\* time of the read, a field is what is stored.
GetAttr(ps, attr) ==
    IF attr = "amplitude_m90" THEN amplitude_m90(ps)
    ELSE IF attr = "negative_amplitude" THEN negative_amplitude(ps)
    ELSE fields[ps][attr]

\* Reading a parameter of a registered pulse: a reference is resolved when
\* the parameter is read.
ReadParameter(op, p) ==
    LET v == op.params[p]
    IN  IF v[1] = "ref" THEN GetAttr(v[2], v[3]) ELSE v[3]

\* PulseSet.gates, in the declared order.
Gates(ps) ==
    IF ps = "drag_gaussian" THEN <<"x90", "x180", "y90", "y180", "-x90", "-y90">>
    ELSE IF ps = "flattop_cosine" THEN <<"rise", "fall">>
    ELSE custom.gates

GateSet(ps) == {Gates(ps)[i] : i \in 1..Len(Gates(ps))}

\* PulseSetDragGaussian.individual_pulse_parameters
DragGaussianIndividual(ps) ==
    [g \in {"x90", "x180", "y90", "-x90", "-y90", "y180"} |->
        [p \in {"amplitude", "axis_angle"} |->
            IF p = "amplitude"
            THEN get_reference(ps,
                    IF g \in {"x90", "y90"} THEN "amplitude_90"
                    ELSE IF g \in {"x180", "y180"} THEN "amplitude_180"
                    ELSE "amplitude_m90")
            ELSE get_reference(ps,
                    IF g \in {"x90", "x180", "-x90"} THEN "phase_x" ELSE "phase_y")]]

\* PulseSetFlattopCosine.individual_pulse_parameters
FlattopCosineIndividual(ps) ==
    [g \in {"rise", "fall"} |->
        [p \in {"return_part", "amplitude"} |->
            IF p = "return_part" THEN Lit("rise")
            ELSE get_reference(ps,
                    IF g = "rise" THEN "amplitude" ELSE "negative_amplitude")]]

individual_pulse_parameters(ps) ==
    IF ps = "drag_gaussian" THEN DragGaussianIndividual(ps)
    ELSE IF ps = "flattop_cosine" THEN FlattopCosineIndividual(ps)
    ELSE custom.individual

\* PulseSetDragGaussian.shared_pulse_parameters
DragGaussianShared(ps) ==
    [p \in {"length", "sigma", "anharmonicity", "alpha", "detuning",
            "subtracted", "digital_marker"} |-> get_reference(ps, p)]

\* PulseSetFlattopCosine.shared_pulse_parameters
FlattopCosineShared(ps) ==
    [p \in {"length"} |-> get_reference(ps, "rise_fall_time")]

shared_pulse_parameters(ps) ==
    IF ps = "drag_gaussian" THEN DragGaussianShared(ps)
    ELSE IF ps = "flattop_cosine" THEN FlattopCosineShared(ps)
    ELSE custom.shared

\* Python's dict union a | b: on a common key the right operand's value.
DictUnion(a, b) ==
    [k \in DOMAIN a \cup DOMAIN b |-> IF k \in DOMAIN b THEN b[k] ELSE a[k]]

\* d[k] = v on a dict.
DictSet(d, k, v) ==
    [x \in DOMAIN d \cup {k} |-> IF x = k THEN v ELSE d[x]]

\* PulseSet.pulse_name: the key of the pulse set in its parent dict.
PulseName(ps) == ps

\* A key that leaves the pulse name out.
OperationKey_gate_only(gate, ps) == gate

\* f"{pulse}_{self.pulse_name}"
OperationKey(gate, ps) == gate \o "_" \o PulseName(ps)

\* A reference that leaves the pulse name out.
DefaultReference_gate_only(gate, ps) == "#./" \o gate

\* f"#./{gate}_{self.pulse_name}"
DefaultReference(gate, ps) == "#./" \o gate \o "_" \o PulseName(ps)

\* An operation of the channel: a pulse object, or a reference string.
PulseOp(params) == [kind |-> "pulse", params |-> params, ref |-> ""]
RefOp(s) == [kind |-> "ref", params |-> <<>>, ref |-> s]

\* self.individual_pulse_parameters[pulse] | self.shared_pulse_parameters
MergedParameters(ps, gate) ==
    DictUnion(individual_pulse_parameters(ps)[gate], shared_pulse_parameters(ps))

\* The second loop of add_drive_pulses over the gates gs that are left: a
\* gate without individual parameters raises KeyError where it is reached.
RECURSIVE RegisterPulses(_, _, _)
RegisterPulses(ps, gs, ops) ==
    IF gs = <<>> THEN [outcome |-> "ok", ops |-> ops]
    ELSE IF Head(gs) \notin DOMAIN individual_pulse_parameters(ps)
    THEN [outcome |-> "KeyError", ops |-> ops]
    ELSE RegisterPulses(ps, Tail(gs),
            DictSet(ops, OperationKey(Head(gs), ps),
                    PulseOp(MergedParameters(ps, Head(gs)))))

\* add_drive_pulses without its first loop.
add_drive_pulses_unchecked(ps, ops) == RegisterPulses(ps, Gates(ps), ops)

\* PulseSet.add_drive_pulses on a channel whose operations are ops.
add_drive_pulses(ps, ops) ==
    IF \E g \in DOMAIN individual_pulse_parameters(ps) : g \notin GateSet(ps)
    THEN [outcome |-> "ValueError", ops |-> ops]
    ELSE RegisterPulses(ps, Gates(ps), ops)

\* PulseSet.set_as_default_gate_shape over the gates gs that are left.
RECURSIVE DefaultGates(_, _, _)
DefaultGates(ps, gs, ops) ==
    IF gs = <<>> THEN [outcome |-> "ok", ops |-> ops]
    ELSE LET gate == Head(gs)
             added == IF gate \notin DOMAIN ops
                      THEN add_drive_pulses(ps, ops)
                      ELSE [outcome |-> "ok", ops |-> ops]
         IN  IF added.outcome # "ok" THEN added
             ELSE DefaultGates(ps, Tail(gs),
                    DictSet(added.ops, gate, RefOp(DefaultReference(gate, ps))))

set_as_default_gate_shape(ps, ops) == DefaultGates(ps, Gates(ps), ops)

\* The configurations of the user-defined pulse set.
CustomGateLists ==
    {<<>>, <<"x90">>, <<"x90", "x180">>, <<"x180", "x90">>}

CustomIndividualKeys == SUBSET {"x90", "x180", "cz"}

CustomParameterDicts ==
    {[p \in {"amplitude"} |-> Lit("individual")],
     [p \in {"amplitude", "length"} |-> Lit("individual")]}

CustomSharedDicts ==
    {<<>>,
     [p \in {"length"} |-> Lit("shared")],
     [p \in {"amplitude", "sigma"} |-> Lit("shared")]}

CustomConfigs ==
    {[gates |-> gs, individual |-> [g \in ks |-> d], shared |-> s] :
        gs \in CustomGateLists, ks \in CustomIndividualKeys,
        d \in CustomParameterDicts, s \in CustomSharedDicts}

DefaultCustom ==
    [gates |-> <<"x90">>,
     individual |-> [g \in {"x90"} |-> [p \in {"amplitude"} |-> Lit("individual")]],
     shared |-> [p \in {"length"} |-> Lit("shared")]]

InitialFields == [ps \in {"drag_gaussian", "flattop_cosine"} |->
                    [a \in StoredFields(ps) |-> 1]]

\* ---- actions -------------------------------------------------------------

AddDrivePulses(ps) ==
    LET r == add_drive_pulses(ps, operations)
    IN  /\ operations' = r.ops
        /\ last' = [op |-> "add_drive_pulses", ps |-> ps, outcome |-> r.outcome,
                    before |-> operations]
        /\ UNCHANGED <<fields, custom, nwrites>>
        /\ UNCHANGED <<treeVars, wiring, octaveVars, hostVars>>

SetAsDefaultGateShape(ps) ==
    LET r == set_as_default_gate_shape(ps, operations)
    IN  /\ operations' = r.ops
        /\ last' = [op |-> "set_as_default_gate_shape", ps |-> ps,
                    outcome |-> r.outcome, before |-> operations]
        /\ UNCHANGED <<fields, custom, nwrites>>
        /\ UNCHANGED <<treeVars, wiring, octaveVars, hostVars>>

\* pulse_set.attr = v
WriteField(ps, attr, v) ==
    /\ nwrites < MaxWrites
    /\ attr \in StoredFields(ps)
    /\ fields' = [fields EXCEPT ![ps][attr] = v]
    /\ nwrites' = nwrites + 1
    /\ last' = [op |-> "write"]
    /\ UNCHANGED <<operations, custom>>
    /\ UNCHANGED <<treeVars, wiring, octaveVars, hostVars>>

(***************************************************************************)
(* The name-from-parent helpers (utils.py) on a tree of components.        *)
(***************************************************************************)

Root == 0

\* Keys of root.qubits: strings and integers.
DictKeys == {<<"s", "q1">>, <<"i", 2>>}

AttrNames == {"resonator", "new_resonator"}

\* The field values a component is constructed with.
FieldValues == {"default", "tuned"}

\* str(x) of a key or an index.
Str(k) == IF k[1] = "i" THEN ToString(k[2]) ELSE k[2]

\* Two components with the same field values.
Equal_by_fields(a, b) == comps[a].val = comps[b].val

\* value == component: components compare by identity.
Equal(a, b) == a = b

IsDict(t) == t \in {"dict", "QuamDict"}
IsList(t) == t \in {"list", "tuple", "QuamList"}

Ok(v) == [outcome |-> "ok", ret |-> v]
Raise(e) == [outcome |-> e, ret |-> ""]

\* The first entry of a sequence of <<name, value>> pairs whose value equals
\* the component, as the for loop over items() finds it.
RECURSIVE FirstMatch(_, _)
FirstMatch(items, c) ==
    IF items = <<>> THEN Raise("ValueError")
    ELSE IF Equal(Head(items)[2], c) THEN Ok(Head(items)[1])
    ELSE FirstMatch(Tail(items), c)

\* An index counted from one.
RECURSIVE ListIndex_from_one(_, _, _)
ListIndex_from_one(l, c, i) ==
    IF i > Len(l) THEN [outcome |-> "ValueError", ret |-> ""]
    ELSE IF l[i] = c THEN [outcome |-> "ok", ret |-> i]
    ELSE ListIndex_from_one(l, c, i + 1)

\* list.index(component): the first position whose element equals it.
RECURSIVE ListIndex(_, _, _)
ListIndex(l, c, i) ==
    IF i > Len(l) THEN Raise("ValueError")
    ELSE IF Equal(l[i], c) THEN Ok(i - 1)
    ELSE ListIndex(l, c, i + 1)

\* get_parent_type
get_parent_type(c) == comps[c].parent

key_from_parent_dict(c) ==
    IF ~IsDict(comps[c].parent) THEN Raise("ValueError")
    ELSE FirstMatch(qubits, c)

index_from_parent_list(c) ==
    IF ~IsList(comps[c].parent) THEN Raise("ValueError")
    ELSE ListIndex(qubit_list, c, 1)

name_from_parent_component(c) ==
    IF comps[c].parent \in {"QuamDict", "QuamList"} THEN Raise("ValueError")
    ELSE IF comps[c].parent # "QuamComponent" THEN Raise("ValueError")
    ELSE FirstMatch(attrs, c)

\* str(...) of a result that is not an exception.
StrOf(r, tag) == IF r.outcome = "ok" THEN Ok(Str(<<tag, r.ret>>)) ELSE r

\* get_name_from_parent without its branch for lists.
get_name_from_parent_no_list(c) ==
    IF get_parent_type(c) \in {"QuamDict", "dict"}
    THEN LET r == key_from_parent_dict(c)
         IN  IF r.outcome = "ok" THEN Ok(Str(r.ret)) ELSE r
    ELSE name_from_parent_component(c)

get_name_from_parent(c) ==
    IF get_parent_type(c) \in {"QuamDict", "dict"}
    THEN LET r == key_from_parent_dict(c)
         IN  IF r.outcome = "ok" THEN Ok(Str(r.ret)) ELSE r
    ELSE IF get_parent_type(c) \in {"QuamList", "list", "tuple"}
    THEN StrOf(index_from_parent_list(c), "i")
    ELSE name_from_parent_component(c)

\* ---- where a component is ------------------------------------------------

Nowhere == [where |-> "nowhere", key |-> <<"s", "">>, index |-> 0, name |-> ""]
InDict(k) == [where |-> "dict", key |-> k, index |-> 0, name |-> ""]
InList(i) == [where |-> "list", key |-> <<"s", "">>, index |-> i, name |-> ""]
InAttr(n) == [where |-> "attr", key |-> <<"s", "">>, index |-> 0, name |-> n]

NewId == Cardinality(DOMAIN comps)

KeysOf(items) == {items[i][1] : i \in 1..Len(items)}

PositionOf(items, k) == CHOOSE i \in 1..Len(items) : items[i][1] = k

\* items[k] = c on an insertion-ordered mapping: a present key keeps its place.
ItemsSet(items, k, c) ==
    IF k \in KeysOf(items)
    THEN [items EXCEPT ![PositionOf(items, k)] = <<k, c>>]
    ELSE Append(items, <<k, c>>)

\* del items[k]
ItemsDel(items, k) ==
    SubSeq(items, 1, PositionOf(items, k) - 1)
        \o SubSeq(items, PositionOf(items, k) + 1, Len(items))

\* l.insert(i, c), i counted from 0
ListInsertAt(l, i, c) == SubSeq(l, 1, i) \o <<c>> \o SubSeq(l, i + 1, Len(l))

\* ---- actions -------------------------------------------------------------

\* root.qubits[k] = ScQubit(...): the new component's parent is the QuamDict.
DictInsert(k, v) ==
    /\ NewId <= MaxComponents
    /\ comps' = [c \in DOMAIN comps \cup {NewId} |->
                    IF c = NewId THEN [parent |-> "QuamDict", val |-> v]
                    ELSE comps[c]]
    /\ qubits' = ItemsSet(qubits, k, NewId)
    /\ slot' = [c \in DOMAIN comps \cup {NewId} |->
                    IF c = NewId THEN InDict(k)
                    ELSE IF slot[c] = InDict(k) THEN Nowhere
                    ELSE slot[c]]
    /\ last' = NoCall
    /\ UNCHANGED <<qubit_list, attrs>>
    /\ UNCHANGED <<pulseVars, wiring, octaveVars, hostVars>>

\* del root.qubits[k]: the removed component keeps its parent attribute.
DictRemove(k) ==
    /\ k \in KeysOf(qubits)
    /\ qubits' = ItemsDel(qubits, k)
    /\ slot' = [c \in DOMAIN comps |-> IF slot[c] = InDict(k) THEN Nowhere ELSE slot[c]]
    /\ last' = NoCall
    /\ UNCHANGED <<comps, qubit_list, attrs>>
    /\ UNCHANGED <<pulseVars, wiring, octaveVars, hostVars>>

\* root.qubit_list.insert(i, ScQubit(...)); append is the insert at the end.
\* An insert at or before a component's index raises its index by one.
ListInsert(i, v) ==
    /\ NewId <= MaxComponents
    /\ i \in 0..Len(qubit_list)
    /\ comps' = [c \in DOMAIN comps \cup {NewId} |->
                    IF c = NewId THEN [parent |-> "QuamList", val |-> v]
                    ELSE comps[c]]
    /\ qubit_list' = ListInsertAt(qubit_list, i, NewId)
    /\ slot' = [c \in DOMAIN comps \cup {NewId} |->
                    IF c = NewId THEN InList(i)
                    ELSE IF slot[c].where = "list" /\ i <= slot[c].index
                    THEN InList(slot[c].index + 1)
                    ELSE slot[c]]
    /\ last' = NoCall
    /\ UNCHANGED <<qubits, attrs>>
    /\ UNCHANGED <<pulseVars, wiring, octaveVars, hostVars>>

\* root.<name> = ReadoutResonator(...): the new component's parent is root.
SetAttr(n, v) ==
    /\ NewId <= MaxComponents
    /\ comps' = [c \in DOMAIN comps \cup {NewId} |->
                    IF c = NewId THEN [parent |-> "QuamComponent", val |-> v]
                    ELSE comps[c]]
    /\ attrs' = ItemsSet(attrs, n, NewId)
    /\ slot' = [c \in DOMAIN comps \cup {NewId} |->
                    IF c = NewId THEN InAttr(n)
                    ELSE IF slot[c] = InAttr(n) THEN Nowhere
                    ELSE slot[c]]
    /\ last' = NoCall
    /\ UNCHANGED <<qubits, qubit_list>>
    /\ UNCHANGED <<pulseVars, wiring, octaveVars, hostVars>>

Called(op, c, r) ==
    /\ last' = [op |-> op, c |-> c, outcome |-> r.outcome, ret |-> r.ret]
    /\ UNCHANGED <<pulseVars, treeVars, wiring, octaveVars, hostVars>>

CallKeyFromParentDict(c) ==
    Called("key_from_parent_dict", c, key_from_parent_dict(c))

CallIndexFromParentList(c) ==
    Called("index_from_parent_list", c, index_from_parent_list(c))

CallNameFromParentComponent(c) ==
    Called("name_from_parent_component", c, name_from_parent_component(c))

CallGetNameFromParent(c) ==
    Called("get_name_from_parent", c, get_name_from_parent(c))

(***************************************************************************)
(* The wiring and its default octave port (components/wiring.py).          *)
(***************************************************************************)

\* The analog ports of a controller, as the docstrings count them.
NumPorts == 10

Controllers == {"con1", "con2"}

Ports == Controllers \X (1..NumPorts)

\* port_Q // 2 taken from port I.
default_octave_port_of_I(port_I, port_Q) ==
    IF port_I[1] # port_Q[1] THEN [outcome |-> "ValueError", ret |-> 0]
    ELSE IF port_I[2] % 2 # 1 \/ port_Q[2] # port_I[2] + 1
    THEN [outcome |-> "ValueError", ret |-> 0]
    ELSE [outcome |-> "ok", ret |-> port_I[2] \div 2]

\* Without the comparison of the two controllers.
default_octave_port_any_controller(port_I, port_Q) ==
    IF port_I[2] % 2 # 1 \/ port_Q[2] # port_I[2] + 1
    THEN [outcome |-> "ValueError", ret |-> 0]
    ELSE [outcome |-> "ok", ret |-> port_Q[2] \div 2]

_default_octave_port(port_I, port_Q) ==
    IF port_I[1] # port_Q[1] THEN [outcome |-> "ValueError", ret |-> 0]
    ELSE IF port_I[2] % 2 # 1 \/ port_Q[2] # port_I[2] + 1
    THEN [outcome |-> "ValueError", ret |-> 0]
    ELSE [outcome |-> "ok", ret |-> port_Q[2] \div 2]

\* OPXIQChannelWiring.default_octave_port
default_octave_port(w) == _default_octave_port(w.port_I, w.port_Q)

\* OPXFeedLineWiring.default_octave_port_in
default_octave_port_in(w) == _default_octave_port(w.output_I, w.output_Q)

\* OPXFeedLineWiring.default_octave_port_out
default_octave_port_out(w) == _default_octave_port(w.input_I, w.input_Q)

NoPort == <<"", 0>>

OPXIQChannelWiring(i, q) ==
    [class |-> "OPXIQChannelWiring", port_I |-> i, port_Q |-> q,
     output_I |-> NoPort, output_Q |-> NoPort, input_I |-> NoPort, input_Q |-> NoPort]

OPXFeedLineWiring(oi, oq, ii, iq) ==
    [class |-> "OPXFeedLineWiring", port_I |-> NoPort, port_Q |-> NoPort,
     output_I |-> oi, output_Q |-> oq, input_I |-> ii, input_Q |-> iq]

NoWiring == OPXIQChannelWiring(NoPort, NoPort)

\* A few port pairs for the pair of a feed line that is not under study.
SamplePairs ==
    {<<<<"con1", 1>>, <<"con1", 2>>>>,
     <<<<"con1", 2>>, <<"con1", 3>>>>,
     <<<<"con1", 9>>, <<"con2", 10>>>>}

Wirings ==
    {OPXIQChannelWiring(i, q) : i \in Ports, q \in Ports}
    \cup {OPXFeedLineWiring(o[1], o[2], p[1], p[2]) : o \in Ports \X Ports, p \in SamplePairs}
    \cup {OPXFeedLineWiring(p[1], p[2], o[1], o[2]) : o \in Ports \X Ports, p \in SamplePairs}

WiringCalled(op, r) ==
    /\ last' = [op |-> op, outcome |-> r.outcome, ret |-> r.ret]
    /\ UNCHANGED <<pulseVars, treeVars, wiring, octaveVars, hostVars>>

CallDefaultOctavePort ==
    /\ wiring.class = "OPXIQChannelWiring"
    /\ WiringCalled("default_octave_port", default_octave_port(wiring))

CallDefaultOctavePortIn ==
    /\ wiring.class = "OPXFeedLineWiring"
    /\ WiringCalled("default_octave_port_in", default_octave_port_in(wiring))

CallDefaultOctavePortOut ==
    /\ wiring.class = "OPXFeedLineWiring"
    /\ WiringCalled("default_octave_port_out", default_octave_port_out(wiring))

(***************************************************************************)
(* The octave converters' port discovery (components/octave.py).           *)
(***************************************************************************)

\* The up-converter and the down-converter under study.
UpConverter == "RF_outputs/1"
DownConverter == "RF_inputs/1"

\* OctaveUpConverterSQuID.id / OctaveDownConverterSQuID.id: the id given to
\* the converter, or the key of the converter in the octave's RF_outputs /
\* RF_inputs.
ConverterId(conv) == id[conv]

\* Output port pairs (I, Q) of a channel: two that differ.
OutputPairs ==
    {<<<<"con1", 1>>, <<"con1", 2>>>>, <<<<"con1", 3>>, <<"con1", 4>>>>}

\* Input port pairs (I, Q): the second differs from the first in I only, the
\* third in Q only.
InputPairs ==
    {<<<<"con1", 1>>, <<"con1", 2>>>>,
     <<<<"con2", 1>>, <<"con1", 2>>>>,
     <<<<"con1", 1>>, <<"con2", 2>>>>}

\* An InOutIQChannel: the converters it refers to and its OPX ports.
Channels ==
    [frequency_converter_up : {"None", UpConverter},
     frequency_converter_down : {"None", DownConverter},
     opx_output : OutputPairs,
     opx_input : InputPairs]

ChannelLists == UNION {[1..n -> Channels] : n \in 0..MaxChannels}

None == <<>>

\* OctaveUpConverterSQuID.find_opx_outputs over the components cs that are
\* left: the ports of the first channel that refers to the converter, and
\* None when the loop ends.
RECURSIVE find_opx_outputs_from(_, _)
find_opx_outputs_from(conv, cs) ==
    IF cs = <<>> THEN [outcome |-> "ok", ret |-> None]
    ELSE IF Head(cs).frequency_converter_up = conv
    THEN [outcome |-> "ok", ret |-> Head(cs).opx_output]
    ELSE find_opx_outputs_from(conv, Tail(cs))

find_opx_outputs(conv) == find_opx_outputs_from(conv, channels)

\* The loop of find_opx_inputs over the components cs that are left, with
\* opx_inputs = {"I": I, "Q": Q} so far.
RECURSIVE find_opx_inputs_from(_, _, _, _)
find_opx_inputs_from(conv, cs, I, Q) ==
    IF cs = <<>>
    THEN IF I = None \/ Q = None
         THEN [outcome |-> "ValueError", ret |-> None]
         ELSE [outcome |-> "ok", ret |-> <<I, Q>>]
    ELSE IF Head(cs).frequency_converter_down # conv
    THEN find_opx_inputs_from(conv, Tail(cs), I, Q)
    ELSE IF I # None /\ I # Head(cs).opx_input[1]
    THEN [outcome |-> "ValueError", ret |-> None]
    ELSE IF Q # None /\ Q # Head(cs).opx_input[2]
    THEN [outcome |-> "ValueError", ret |-> None]
    ELSE find_opx_inputs_from(conv, Tail(cs),
            Head(cs).opx_input[1], Head(cs).opx_input[2])

\* The ports of the first channel that refers to the down-converter.
RECURSIVE find_opx_inputs_first(_, _)
find_opx_inputs_first(conv, cs) ==
    IF cs = <<>> THEN [outcome |-> "ValueError", ret |-> None]
    ELSE IF Head(cs).frequency_converter_down = conv
    THEN [outcome |-> "ok", ret |-> Head(cs).opx_input]
    ELSE find_opx_inputs_first(conv, Tail(cs))

find_opx_inputs_unchecked(conv) == find_opx_inputs_first(conv, channels)

\* OctaveDownConverterSQuID.find_opx_inputs
find_opx_inputs(conv) == find_opx_inputs_from(conv, channels, None, None)

\* isinstance(self.LO_frequency, (int, float))
IsNumber(v) == v[1] = "number"

EmptyConfig == [RF_outputs |-> <<>>, RF_inputs |-> <<>>, IF_outputs |-> <<>>]

\* A second up-converter and a second down-converter of the same octave.
UpConverter2 == "RF_outputs/2"
DownConverter2 == "RF_inputs/2"

\* The entry written whether or not the id has one.
up_apply_to_config_overwriting(conv, cfg) ==
    IF ~IsNumber(LO_frequency[conv])
    THEN [outcome |-> "ValueError", config |-> cfg]
    ELSE LET entry == [LO_frequency |-> LO_frequency[conv],
                       I_connection |-> None, Q_connection |-> None]
             written == [cfg EXCEPT !.RF_outputs =
                            DictSet(cfg.RF_outputs, ConverterId(conv), entry)]
             found == find_opx_outputs_from(conv, channels)
         IN  IF found.ret = None
             THEN [outcome |-> "AttributeError", config |-> written]
             ELSE [outcome |-> "ok",
                   config |-> [cfg EXCEPT !.RF_outputs =
                        DictSet(cfg.RF_outputs, ConverterId(conv),
                                [entry EXCEPT !.I_connection = found.ret[1],
                                              !.Q_connection = found.ret[2]])]]

\* OctaveUpConverterSQuID.apply_to_config on the config cfg: the outcome and
\* the config it leaves.
up_apply_to_config(conv, cfg) ==
    IF ~IsNumber(LO_frequency[conv])
    THEN [outcome |-> "ValueError", config |-> cfg]
    ELSE IF ConverterId(conv) \in DOMAIN cfg.RF_outputs
    THEN [outcome |-> "KeyError", config |-> cfg]
    ELSE LET entry == [LO_frequency |-> LO_frequency[conv],
                       I_connection |-> None, Q_connection |-> None]
             written == [cfg EXCEPT !.RF_outputs =
                            DictSet(cfg.RF_outputs, ConverterId(conv), entry)]
             found == find_opx_outputs(conv)
         IN  IF found.ret = None
             THEN [outcome |-> "AttributeError", config |-> written]
             ELSE [outcome |-> "ok",
                   config |-> [cfg EXCEPT !.RF_outputs =
                        DictSet(cfg.RF_outputs, ConverterId(conv),
                                [entry EXCEPT !.I_connection = found.ret[1],
                                              !.Q_connection = found.ret[2]])]]

OctaveCalled(op, conv, r) ==
    /\ last' = [op |-> op, conv |-> conv, outcome |-> r.outcome, ret |-> r.ret]
    /\ UNCHANGED <<pulseVars, treeVars, wiring, octaveVars, hostVars>>

CallFindOpxOutputs == OctaveCalled("find_opx_outputs", UpConverter, find_opx_outputs(UpConverter))

CallFindOpxInputs == OctaveCalled("find_opx_inputs", DownConverter, find_opx_inputs(DownConverter))

UpApplyToConfig ==
    LET r == up_apply_to_config(UpConverter, config)
    IN  /\ config' = r.config
        /\ last' = [op |-> "up.apply_to_config", conv |-> UpConverter,
                    outcome |-> r.outcome, before |-> config]
        /\ UNCHANGED <<pulseVars, treeVars, wiring, channels, LO_frequency, id, IF_output, hostVars>>

\* converter.apply_to_config(config) of any up-converter of the octave.
ApplyUpConverter(conv) ==
    LET r == up_apply_to_config(conv, config)
    IN  /\ config' = r.config
        /\ last' = [op |-> "up.apply_to_config", conv |-> conv,
                    outcome |-> r.outcome, before |-> config]
        /\ UNCHANGED <<pulseVars, treeVars, wiring, channels, LO_frequency, id, IF_output, hostVars>>

\* f"IF_out{IF_ch}"
IFLabel(IF_ch) == "IF_out" \o ToString(IF_ch)

\* The loop with IF_config[label] = {...} in place of setdefault.
RECURSIVE assign_IF_outputs_overwriting(_, _, _, _)
assign_IF_outputs_overwriting(cfg, IF_channels, opx_channels, k) ==
    IF IF_channels = <<>> \/ opx_channels = <<>>
    THEN [outcome |-> "ok", config |-> cfg]
    ELSE assign_IF_outputs_overwriting(
            [cfg EXCEPT !.IF_outputs =
                DictSet(@, IFLabel(Head(IF_channels)),
                        [port |-> Head(opx_channels), name |-> "out" \o ToString(k)])],
            Tail(IF_channels), Tail(opx_channels), k + 1)

\* The loop over zip(IF_channels, opx_channels) from its k-th round on:
\* setdefault of the label, then the comparison of the ports.
RECURSIVE assign_IF_outputs(_, _, _, _)
assign_IF_outputs(cfg, IF_channels, opx_channels, k) ==
    IF IF_channels = <<>> \/ opx_channels = <<>>
    THEN [outcome |-> "ok", config |-> cfg]
    ELSE LET label == IFLabel(Head(IF_channels))
             set == IF label \in DOMAIN cfg.IF_outputs THEN cfg
                    ELSE [cfg EXCEPT !.IF_outputs =
                            DictSet(@, label, [port |-> Head(opx_channels),
                                               name |-> "out" \o ToString(k)])]
         IN  IF set.IF_outputs[label].port # Head(opx_channels)
             THEN [outcome |-> "ValueError", config |-> set]
             ELSE assign_IF_outputs(set, Tail(IF_channels), Tail(opx_channels), k + 1)

\* OctaveDownConverterSQuID.apply_to_config on the config cfg: the outcome
\* and the config it leaves.
down_apply_to_config(conv, cfg) ==
    IF ~IsNumber(LO_frequency[conv])
    THEN [outcome |-> "ValueError", config |-> cfg]
    ELSE IF ConverterId(conv) \in DOMAIN cfg.RF_inputs
    THEN [outcome |-> "KeyError", config |-> cfg]
    ELSE LET written == [cfg EXCEPT !.RF_inputs =
                            DictSet(@, ConverterId(conv),
                                [RF_source |-> "RF_in",
                                 LO_frequency |-> LO_frequency[conv]])]
             IF_channels == <<IF_output[conv][1], IF_output[conv][2]>>
             opx_inputs == find_opx_inputs(conv)
         IN  IF opx_inputs.outcome # "ok"
             THEN [outcome |-> opx_inputs.outcome, config |-> written]
             ELSE assign_IF_outputs(written, IF_channels, opx_inputs.ret, 1)

\* converter.apply_to_config(config) of a down-converter of the octave.
ApplyDownConverter(conv) ==
    LET r == down_apply_to_config(conv, config)
    IN  /\ config' = r.config
        /\ last' = [op |-> "down.apply_to_config", conv |-> conv,
                    outcome |-> r.outcome, before |-> config]
        /\ UNCHANGED <<pulseVars, treeVars, wiring, channels, LO_frequency, id, IF_output, hostVars>>

\* The channels of a tree whose converters are up-converters only.
UpChannels ==
    [frequency_converter_up : {UpConverter, UpConverter2},
     frequency_converter_down : {"None"},
     opx_output : OutputPairs,
     opx_input : {<<<<"con1", 1>>, <<"con1", 2>>>>}]

UpChannelLists == UNION {[1..n -> UpChannels] : n \in 0..MaxChannels}

\* The channels of a tree whose converters are down-converters only.
DownChannels ==
    [frequency_converter_up : {"None"},
     frequency_converter_down : {DownConverter, DownConverter2},
     opx_output : {<<<<"con1", 1>>, <<"con1", 2>>>>},
     opx_input : InputPairs]

DownChannelLists == UNION {[1..n -> DownChannels] : n \in 0..MaxChannels}

\* IF_output_I and IF_output_Q: the default, the two swapped, and both 1.
IFOutputs == {<<1, 2>>, <<2, 1>>, <<1, 1>>}

(***************************************************************************)
(* The frequency converters of an octave (components/octave.py).           *)
(***************************************************************************)

\* An octave has 5 RF outputs and 2 RF inputs.
NumRFOutputs == 5
NumRFInputs == 2

\* A converter made with id=idx.
ConverterWithId(class, idx) == [class |-> class, id |-> <<"int", idx>>]

\* A converter made without an id: the id refers to the key in the parent.
ConverterWithoutId(class) == [class |-> class, id |-> <<"#./id_from_parent_dict", 0>>]

OctaveState == [RF_outputs |-> RF_outputs, RF_inputs |-> RF_inputs]

\* The two loops: self.RF_outputs[idx] = OctaveUpConverterSQuID(id=idx) and
\* self.RF_inputs[idx] = OctaveDownConverterSQuID(id=idx).
default_converters(o) ==
    [RF_outputs |->
        [idx \in DOMAIN o.RF_outputs \cup (1..NumRFOutputs) |->
            IF idx \in 1..NumRFOutputs
            THEN ConverterWithId("OctaveUpConverterSQuID", idx)
            ELSE o.RF_outputs[idx]],
     RF_inputs |->
        [idx \in DOMAIN o.RF_inputs \cup (1..NumRFInputs) |->
            IF idx \in 1..NumRFInputs
            THEN ConverterWithId("OctaveDownConverterSQuID", idx)
            ELSE o.RF_inputs[idx]]]

\* The two loops without the checks before them.
initialize_frequency_converters_unchecked(o) ==
    [outcome |-> "ok", octave |-> default_converters(o)]

\* OctaveSQuID.initialize_frequency_converters: the outcome and the octave
\* it leaves.
initialize_frequency_converters(o) ==
    IF DOMAIN o.RF_outputs # {} THEN [outcome |-> "ValueError", octave |-> o]
    ELSE IF DOMAIN o.RF_inputs # {} THEN [outcome |-> "ValueError", octave |-> o]
    ELSE [outcome |-> "ok", octave |-> default_converters(o)]

InitializeFrequencyConverters ==
    LET r == initialize_frequency_converters(OctaveState)
    IN  /\ RF_outputs' = r.octave.RF_outputs
        /\ RF_inputs' = r.octave.RF_inputs
        /\ last' = [op |-> "initialize_frequency_converters",
                    outcome |-> r.outcome, before |-> OctaveState]
        /\ UNCHANGED <<pulseVars, treeVars, wiring, octaveVars, qubitVars,
                       fsVars, rootVars, generateVars, resetVars>>

\* octave.RF_outputs[key] = OctaveUpConverterSQuID(...)
SetRFOutput(key) ==
    /\ RF_outputs' = DictSet(RF_outputs, key, ConverterWithoutId("OctaveUpConverterSQuID"))
    /\ RF_outputs' # RF_outputs
    /\ last' = [op |-> "write"]
    /\ UNCHANGED RF_inputs
    /\ UNCHANGED <<pulseVars, treeVars, wiring, octaveVars, qubitVars,
                   fsVars, rootVars, generateVars, resetVars>>

\* octave.RF_inputs[key] = OctaveDownConverterSQuID(...)
SetRFInput(key) ==
    /\ RF_inputs' = DictSet(RF_inputs, key, ConverterWithoutId("OctaveDownConverterSQuID"))
    /\ RF_inputs' # RF_inputs
    /\ last' = [op |-> "write"]
    /\ UNCHANGED RF_outputs
    /\ UNCHANGED <<pulseVars, treeVars, wiring, octaveVars, qubitVars,
                   fsVars, rootVars, generateVars, resetVars>>

(***************************************************************************)
(* The root and its lazily opened connection (components/roots.py).        *)
(***************************************************************************)

\* None, for the cached objects of the root; objects are numbered from 1.
NoObject == 0

\* The keys a caller adds to a configuration dictionary.
ConfigKeys == {"test", "elements"}

\* The root object and the objects the qm library has made for it.
RootState ==
    [_qm |-> _qm, _qmm |-> _qmm, _config |-> _config, octaves |-> octaves,
     managers |-> managers, machines |-> machines, dicts |-> dicts]

\* SQuIDRoot1.octave: the first octave, or None.
root_octave(r) == IF r.octaves # <<>> THEN Head(r.octaves) ELSE "None"

\* generate_config on every read.
root_config_uncached(r) ==
    LET d == Len(r.dicts) + 1
    IN  [outcome |-> "ok", ret |-> d, st |-> [r EXCEPT !._config = d, !.dicts = Append(r.dicts, {})]]

\* SQuIDRoot1.config: the value read and the state the read leaves.
root_config(r) ==
    IF r._config = NoObject
    THEN LET d == Len(r.dicts) + 1
         IN  [outcome |-> "ok", ret |-> d,
              st |-> [r EXCEPT !._config = d, !.dicts = Append(r.dicts, {})]]
    ELSE [outcome |-> "ok", ret |-> r._config, st |-> r]

\* SQuIDRoot1.qmm
root_qmm(r) ==
    IF r._qmm = NoObject
    THEN LET m == Len(r.managers) + 1
         IN  [outcome |-> "ok", ret |-> m,
              st |-> [r EXCEPT !._qmm = m,
                        !.managers = Append(r.managers, [octave |-> root_octave(r)])]]
    ELSE [outcome |-> "ok", ret |-> r._qmm, st |-> r]

\* self.qmm.open_qm(self.config): the manager is read first, then the
\* config, then the machine is opened.
open_qm(r) ==
    LET mgr == root_qmm(r)
        cfg == root_config(mgr.st)
        q == Len(cfg.st.machines) + 1
    IN  [outcome |-> "ok", ret |-> q,
         st |-> [cfg.st EXCEPT !._qm = q,
                    !.machines = Append(cfg.st.machines,
                        [manager |-> mgr.ret, config |-> cfg.ret, closed |-> FALSE])]]

\* open_qm on every read.
root_qm_uncached(r) == open_qm(r)

\* SQuIDRoot1.qm
root_qm(r) == IF r._qm = NoObject THEN open_qm(r) ELSE [outcome |-> "ok", ret |-> r._qm, st |-> r]

\* SQuIDRoot1.execute: self.qm.execute(program, ...), on the machine returned.
root_execute(r) == root_qm(r)

\* ScQubit.calibrate_drive_mixer: self._root.qm.calibrate_element(...) when
\* the xy channel has an octave up-converter.
calibrate_drive_mixer(r, octave_up_converter) ==
    IF ~octave_up_converter
    THEN [outcome |-> "NotImplementedError", ret |-> NoObject, st |-> r]
    ELSE root_qm(r)

\* SQuIDRoot1.close_qm: if self.qm is not None: self.qm.close()
close_qm(r) ==
    LET q == root_qm(r)
    IN  IF q.ret # NoObject
        THEN [outcome |-> "ok", ret |-> q.ret, st |-> [q.st EXCEPT !.machines[q.ret].closed = TRUE]]
        ELSE [outcome |-> "ok", ret |-> q.ret, st |-> q.st]

RootCalled(op, r) ==
    /\ _qm' = r.st._qm
    /\ _qmm' = r.st._qmm
    /\ _config' = r.st._config
    /\ octaves' = r.st.octaves
    /\ managers' = r.st.managers
    /\ machines' = r.st.machines
    /\ dicts' = r.st.dicts
    /\ last' = [op |-> op, outcome |-> r.outcome, ret |-> r.ret,
                before |-> RootState]
    /\ UNCHANGED <<pulseVars, treeVars, wiring, octaveVars, converterVars,
                   qubitVars, fsVars, generateVars, resetVars>>

ReadConfig == RootCalled("config", root_config(RootState))

ReadQmm == RootCalled("qmm", root_qmm(RootState))

ReadQm == RootCalled("qm", root_qm(RootState))

Execute == RootCalled("execute", root_execute(RootState))

CalibrateDriveMixer(octave_up_converter) ==
    RootCalled("calibrate_drive_mixer",
               calibrate_drive_mixer(RootState, octave_up_converter))

CloseQm == RootCalled("close_qm", close_qm(RootState))

\* config = root.config; config[key] = ...: the caller writes into the
\* dictionary the last read of root.config gave it.
SetConfigItem(key) ==
    /\ last.op = "config"
    /\ key \notin dicts[last.ret]
    /\ RootCalled("setitem",
          [outcome |-> "ok", ret |-> last.ret,
           st |-> [RootState EXCEPT !.dicts[last.ret] = @ \cup {key}]])

(***************************************************************************)
(* The root generated from a wiring (components/roots.py).                 *)
(***************************************************************************)
MaxFeedLines == 2
MaxDriveLines == 2

FeedLineNames == {"feedline", "feedline2"}

DriveLineNames == {"q1", "q2", "q3"}

\* Feed lines: one with well-formed port pairs, one whose output pair starts
\* at an even port.
FeedLineWirings ==
    {OPXFeedLineWiring(<<"con1", 1>>, <<"con1", 2>>, <<"con1", 1>>, <<"con1", 2>>),
     OPXFeedLineWiring(<<"con1", 2>>, <<"con1", 3>>, <<"con1", 1>>, <<"con1", 2>>)}

\* Drive lines: one well-formed, one on two controllers.
DriveLineWirings ==
    {OPXIQChannelWiring(<<"con1", 3>>, <<"con1", 4>>),
     OPXIQChannelWiring(<<"con1", 5>>, <<"con2", 6>>)}

\* The dicts with at most n entries, keys from names and values from
\* values, in every insertion order.
DictsOver(names, values, n) ==
    {d \in UNION {[1..k -> names \X values] : k \in 0..n} :
        \A i, j \in 1..Len(d) : i # j => d[i][1] # d[j][1]}

OPXWirings ==
    [feed_lines : DictsOver(FeedLineNames, FeedLineWirings, MaxFeedLines),
     drive_lines : DictsOver(DriveLineNames, DriveLineWirings, MaxDriveLines)]

\* network.octave_networks, by its keys.
OPXNetworks == [octave_networks : {{}, {"octave1"}}]

\* drive_lo_frequencies: None, or a dict by its keys.
LoFrequencyDicts ==
    {[given |-> FALSE, keys |-> {}],
     [given |-> TRUE, keys |-> {"q1"}],
     [given |-> TRUE, keys |-> DriveLineNames]}

GenerateArguments ==
    [wiring : OPXWirings, network : OPXNetworks,
     drive_lo_frequencies : LoFrequencyDicts]

NoArguments ==
    [wiring |-> [feed_lines |-> <<>>, drive_lines |-> <<>>],
     network |-> [octave_networks |-> {}],
     drive_lo_frequencies |-> [given |-> FALSE, keys |-> {}]]

\* No root.
NoMachine ==
    [class |-> "None", qubits |-> <<>>, RF_outputs |-> <<>>, RF_inputs |-> <<>>]

\* The operations of the xy channel after add_drive_pulses of the two pulse
\* sets of a generated qubit, by their keys.
GeneratedOperations ==
    DOMAIN add_drive_pulses("flattop_cosine",
                add_drive_pulses("drag_gaussian", <<>>).ops).ops

\* The loop over the drive lines that are left: the up-converter of the
\* line, then the qubit.
RECURSIVE add_qubits(_, _, _)
add_qubits(lines, lo, m) ==
    IF lines = <<>> THEN [outcome |-> "ok", machine |-> m]
    ELSE LET qubit_name == Head(lines)[1]
             port == default_octave_port(Head(lines)[2])
         IN  IF lo.given /\ qubit_name \notin lo.keys
             THEN [outcome |-> "KeyError", machine |-> m]
             ELSE IF port.outcome # "ok"
             THEN [outcome |-> port.outcome, machine |-> m]
             ELSE add_qubits(Tail(lines), lo,
                    [m EXCEPT
                        !.RF_outputs = DictSet(@, port.ret, <<"drive", qubit_name>>),
                        !.qubits = ItemsSet(@, qubit_name,
                            [xy |-> <<Head(lines)[2].port_I, Head(lines)[2].port_Q>>,
                             frequency_converter_up |-> port.ret,
                             pulse_sets |-> {"drag_gaussian", "flattop_cosine"},
                             operations |-> GeneratedOperations])])

\* At least one feed line.
some_feedline(w) == Len(w.feed_lines) >= 1

\* len(wiring.feed_lines) == 1
single_feedline(w) == Len(w.feed_lines) = 1

\* SQuIDRoot1.generate_empty_quam_single_feedline: the outcome and the root
\* built so far.
generate_empty_quam_single_feedline(args) ==
    IF ~single_feedline(args.wiring)
    THEN [outcome |-> "ValueError", machine |-> NoMachine]
    ELSE LET feedline == args.wiring.feed_lines[1][2]
             root == [NoMachine EXCEPT !.class = "SQuIDRoot1"]
             port_in == default_octave_port_in(feedline)
             port_out == default_octave_port_out(feedline)
             with_up == [root EXCEPT
                            !.RF_outputs = DictSet(@, port_in.ret, <<"readout">>)]
             with_down == [with_up EXCEPT
                            !.RF_inputs = DictSet(@, port_out.ret, <<"readout">>)]
         IN  IF "octave1" \notin args.network.octave_networks
             THEN [outcome |-> "KeyError", machine |-> root]
             ELSE IF port_in.outcome # "ok"
             THEN [outcome |-> port_in.outcome, machine |-> root]
             ELSE IF port_out.outcome # "ok"
             THEN [outcome |-> port_out.outcome, machine |-> with_up]
             ELSE add_qubits(args.wiring.drive_lines, args.drive_lo_frequencies,
                             with_down)

\* machine = SQuIDRoot1.generate_empty_quam_single_feedline(wiring, network, ...)
GenerateEmptyQuamSingleFeedline ==
    LET r == generate_empty_quam_single_feedline(arguments)
    IN  /\ machine' = IF r.outcome = "ok" THEN r.machine ELSE machine
        /\ last' = [op |-> "generate_empty_quam_single_feedline",
                    outcome |-> r.outcome, built |-> r.machine]
        /\ UNCHANGED arguments
        /\ UNCHANGED <<pulseVars, treeVars, wiring, octaveVars, converterVars,
                       qubitVars, fsVars, rootVars, resetVars>>

(***************************************************************************)
(* The qubit (components/qubits.py).                                       *)
(***************************************************************************)
MaxT1 == 2

\* T1: None, or a number.
T1Values == {<<"None", 0>>} \cup {<<"int", n>> : n \in 0..MaxT1}

\* thermalization_time_factor: 5 unless set.
FactorValues == {1, 5}

\* The names a caller asks for: the pulse sets, and a name no pulse set has.
GateShapeNames == PulseSets \cup {"gaussian"}

QubitState ==
    [pulse_sets |-> pulse_sets, T1 |-> T1,
     thermalization_time_factor |-> thermalization_time_factor,
     operations |-> operations]

\* The product, with None taken as 0.
thermalization_time_of_none(t1, factor) ==
    [outcome |-> "ok", ret |-> factor * t1[2]]

\* ScQubit.thermalization_time
thermalization_time(t1, factor) ==
    IF t1[1] = "None" THEN [outcome |-> "ValueError", ret |-> 0]
    ELSE [outcome |-> "ok", ret |-> factor * t1[2]]

\* The lookup self.pulse_sets[gate_shape] without the check before it.
set_default_gate_shape_unchecked(gate_shape, sets, ops) ==
    IF gate_shape \notin sets THEN [outcome |-> "KeyError", ops |-> ops]
    ELSE set_as_default_gate_shape(gate_shape, ops)

\* ScQubit.set_default_gate_shape on a qubit with the pulse sets sets and
\* the operations ops on its xy channel.
set_default_gate_shape(gate_shape, sets, ops) ==
    IF gate_shape \notin sets THEN [outcome |-> "ValueError", ops |-> ops]
    ELSE set_as_default_gate_shape(gate_shape, ops)

QubitSetDefaultGateShape(gate_shape) ==
    LET r == set_default_gate_shape(gate_shape, pulse_sets, operations)
    IN  /\ operations' = r.ops
        /\ last' = [op |-> "qubit.set_default_gate_shape", gate_shape |-> gate_shape,
                    outcome |-> r.outcome, before |-> QubitState]
        /\ UNCHANGED <<fields, custom, nwrites>>
        /\ UNCHANGED <<treeVars, wiring, octaveVars, hostVars>>

ReadThermalizationTime ==
    LET r == thermalization_time(T1, thermalization_time_factor)
    IN  /\ last' = [op |-> "thermalization_time", outcome |-> r.outcome,
                    ret |-> r.ret, before |-> QubitState]
        /\ UNCHANGED <<pulseVars, treeVars, wiring, octaveVars, hostVars>>

\* qubit.pulse_sets[ps].add_drive_pulses()
QubitAddDrivePulses(ps) ==
    /\ ps \in pulse_sets
    /\ AddDrivePulses(ps)

\* qubit.T1 = v
SetT1(v) ==
    /\ v # T1
    /\ T1' = v
    /\ last' = [op |-> "write"]
    /\ UNCHANGED <<pulse_sets, thermalization_time_factor>>
    /\ UNCHANGED <<pulseVars, treeVars, wiring, octaveVars, converterVars,
                   fsVars, rootVars, generateVars, resetVars>>

(***************************************************************************)
(* The data path of a device (components/information.py).                  *)
(***************************************************************************)
MaxDrivePaths == 2

\* The paths of the N: drive on the lab's computers.
N_DRIVE_PATHS == <<"N:", "unicph.domain\\groupdir">>

\* The drive paths a caller passes: the two above and one more.
Drives == {"N:", "unicph.domain\\groupdir", "D:"}

\* The folder Information.squid_lab_data_path passes.
SquidLabDataFolder == "SCI-NBI-QDev\\SQuID Lab Data\\Devices"

DataFolders == {SquidLabDataFolder, "Archive"}

DeviceNames == {"dev1", "batch/dev1"}

\* A file system: the drives that exist and the data folders on them.
FileSystems ==
    {fs \in SUBSET ({<<d>> : d \in Drives} \cup (Drives \X DataFolders)) :
        \A path \in fs : Len(path) = 2 => <<path[1]>> \in fs}

DrivePathLists == UNION {[1..n -> Drives] : n \in 0..MaxDrivePaths}

\* Path(device_name): the parts between the separators.
PathOfDeviceName(device_name) ==
    IF device_name = "batch/dev1" THEN <<"batch", "dev1">> ELSE <<device_name>>

\* str(path)
RECURSIVE PathString(_)
PathString(path) ==
    IF Len(path) = 1 THEN path[1]
    ELSE path[1] \o "/" \o PathString(Tail(path))

\* next(drive_path for drive_path in paths if os.path.exists(drive_path))
RECURSIVE FirstExisting(_, _)
FirstExisting(paths, fs) ==
    IF paths = <<>> THEN [outcome |-> "StopIteration", ret |-> ""]
    ELSE IF <<Head(paths)>> \in fs THEN [outcome |-> "ok", ret |-> Head(paths)]
    ELSE FirstExisting(Tail(paths), fs)

\* _get_main_drive_path of data_path_from_device_name
_get_main_drive_path(main_drive_paths, fs) ==
    IF ~\E i \in 1..Len(main_drive_paths) : <<main_drive_paths[i]>> \in fs
    THEN [outcome |-> "FileNotFoundError", ret |-> ""]
    ELSE FirstExisting(N_DRIVE_PATHS, fs)

data_path_from_device_name(device_name, data_folder_path, main_drive_paths, fs) ==
    LET main_drive_path == _get_main_drive_path(main_drive_paths, fs)
    IN  IF main_drive_path.outcome # "ok" THEN main_drive_path
        ELSE IF <<main_drive_path.ret, data_folder_path>> \notin fs
        THEN [outcome |-> "FileNotFoundError", ret |-> ""]
        ELSE [outcome |-> "ok",
              ret |-> PathString(<<main_drive_path.ret, data_folder_path>>
                                 \o PathOfDeviceName(device_name)
                                 \o <<"OPX Data">>)]

DataPathCalled(op, device_name, data_folder_path, main_drive_paths) ==
    LET r == data_path_from_device_name(device_name, data_folder_path,
                                        main_drive_paths, exists)
    IN  /\ last' = [op |-> op, device_name |-> device_name,
                    data_folder_path |-> data_folder_path,
                    main_drive_paths |-> main_drive_paths,
                    outcome |-> r.outcome, ret |-> r.ret]
        /\ UNCHANGED <<pulseVars, treeVars, wiring, octaveVars, hostVars>>

CallDataPathFromDeviceName(device_name, data_folder_path, main_drive_paths) ==
    DataPathCalled("data_path_from_device_name", device_name, data_folder_path,
                   main_drive_paths)

\* Information.squid_lab_data_path
ReadSquidLabDataPath(device_name) ==
    DataPathCalled("squid_lab_data_path", device_name, SquidLabDataFolder,
                   N_DRIVE_PATHS)

(***************************************************************************)
(* The active reset of a qubit (quam_macros/qubit_macros.py): the program  *)
(* active_reset writes, as the processor runs it.                          *)
(***************************************************************************)
MaxTries == 3
MaxI == 1

\* The values a fixed-point variable or a threshold takes in the model.
IValues == (0 - MaxI)..MaxI
TryCounts == 0..MaxTries

\* The condition of the while_ loop.
loop_condition_without_counter(I, threshold, count, tries) == I > threshold

loop_condition(I, threshold, count, tries) == I > threshold /\ count < tries

\* active_reset up to the loop: I_reset is declared without a value, so the
\* program starts with whatever value I the variable happens to hold.
ActiveReset(tries, threshold, I) ==
    /\ pc \in {"idle", "done"}
    /\ threshold_g' = threshold
    /\ max_tries' = tries
    /\ I_reset' = I
    /\ counter' = 0
    /\ events' = <<>>
    /\ pc' = "while"
    /\ UNCHANGED last
    /\ UNCHANGED <<pulseVars, treeVars, wiring, octaveVars, converterVars,
                   qubitVars, fsVars, rootVars, generateVars>>

ResetStep(next_pc) ==
    /\ pc' = next_pc
    /\ UNCHANGED <<max_tries, threshold_g, last>>
    /\ UNCHANGED <<pulseVars, treeVars, wiring, octaveVars, converterVars,
                   qubitVars, fsVars, rootVars, generateVars>>

\* The head of the loop: enter the body or leave the loop and return counter.
While ==
    /\ pc = "while"
    /\ ResetStep(IF loop_condition(I_reset, threshold_g, counter, max_tries)
                 THEN "measure" ELSE "done")
    /\ UNCHANGED <<I_reset, counter, events>>

\* The measurement writes its I quadrature, whatever it is, into I_reset.
Measure(I) ==
    /\ pc = "measure"
    /\ I_reset' = I
    /\ events' = Append(events, "measure")
    /\ ResetStep("wait")
    /\ UNCHANGED counter

Wait ==
    /\ pc = "wait"
    /\ events' = Append(events, "wait")
    /\ ResetStep("play")
    /\ UNCHANGED <<I_reset, counter>>

\* play with a condition: the pulse is played when the condition holds.
PlayX180 ==
    /\ pc = "play"
    /\ events' = IF I_reset > threshold_g THEN Append(events, "x180") ELSE events
    /\ ResetStep("assign")
    /\ UNCHANGED <<I_reset, counter>>

AssignCounter ==
    /\ pc = "assign"
    /\ counter' = counter + 1
    /\ events' = Append(events, "assign")
    /\ ResetStep("while")
    /\ UNCHANGED I_reset

(***************************************************************************)
(* Specifications: each takes one part of the program and leaves the rest  *)
(* as constructed.                                                         *)
(***************************************************************************)

PulseIdle ==
    /\ operations = <<>>
    /\ fields = InitialFields
    /\ custom = DefaultCustom
    /\ nwrites = 0

TreeIdle ==
    /\ comps = [c \in {Root} |-> [parent |-> "NoneType", val |-> "default"]]
    /\ qubits = <<>>
    /\ qubit_list = <<>>
    /\ attrs = <<>>
    /\ slot = [c \in {Root} |-> Nowhere]

WiringIdle == wiring = NoWiring

OctaveIdle ==
    /\ channels = <<>>
    /\ LO_frequency = [c \in {UpConverter, DownConverter} |-> <<"None", 0>>]
    /\ config = EmptyConfig
    /\ id = [c \in {UpConverter, DownConverter} |-> 1]
    /\ IF_output = [c \in {DownConverter} |-> <<1, 2>>]

ConverterIdle ==
    /\ RF_outputs = <<>>
    /\ RF_inputs = <<>>

QubitIdle ==
    /\ pulse_sets = {}
    /\ T1 = <<"None", 0>>
    /\ thermalization_time_factor = 5

FsIdle == exists = {}

RootIdle ==
    /\ _qm = NoObject
    /\ _qmm = NoObject
    /\ _config = NoObject
    /\ octaves = <<>>
    /\ managers = <<>>
    /\ machines = <<>>
    /\ dicts = <<>>

GenerateIdle ==
    /\ arguments = NoArguments
    /\ machine = NoMachine

ResetIdle ==
    /\ I_reset = 0
    /\ counter = 0
    /\ max_tries = 0
    /\ threshold_g = 0
    /\ pc = "idle"
    /\ events = <<>>

HostIdle ==
    /\ ConverterIdle
    /\ QubitIdle
    /\ FsIdle
    /\ RootIdle
    /\ GenerateIdle
    /\ ResetIdle

\* ---- pulse sets of one channel, with a user-defined pulse set -------------

InitPulseSet ==
    /\ HostIdle
    /\ TreeIdle
    /\ WiringIdle
    /\ OctaveIdle
    /\ operations = <<>>
    /\ fields = InitialFields
    /\ custom \in CustomConfigs
    /\ nwrites = 0
    /\ last = NoCall

NextPulseSet ==
    \/ \E ps \in PulseSets : AddDrivePulses(ps)
    \/ \E ps \in PulseSets : SetAsDefaultGateShape(ps)

SpecPulseSet == InitPulseSet /\ [][NextPulseSet]_vars

\* ---- the built-in pulse sets under writes to their fields ----------------

InitDrag ==
    /\ HostIdle
    /\ PulseIdle
    /\ TreeIdle
    /\ WiringIdle
    /\ OctaveIdle
    /\ last = NoCall

NextDrag ==
    \/ AddDrivePulses("drag_gaussian")
    \/ SetAsDefaultGateShape("drag_gaussian")
    \/ \E attr \in DragGaussianFields : \E v \in Values :
         WriteField("drag_gaussian", attr, v)

SpecDrag == InitDrag /\ [][NextDrag]_vars

\* ---- the name-from-parent helpers -----------------------------------------

InitTree ==
    /\ HostIdle
    /\ TreeIdle
    /\ PulseIdle
    /\ WiringIdle
    /\ OctaveIdle
    /\ last = NoCall

NextTree ==
    \/ \E k \in DictKeys : \E v \in FieldValues : DictInsert(k, v)
    \/ \E k \in DictKeys : DictRemove(k)
    \/ \E i \in 0..MaxComponents : \E v \in FieldValues : ListInsert(i, v)
    \/ \E n \in AttrNames : \E v \in FieldValues : SetAttr(n, v)
    \/ \E c \in DOMAIN comps : CallKeyFromParentDict(c)
    \/ \E c \in DOMAIN comps : CallIndexFromParentList(c)
    \/ \E c \in DOMAIN comps : CallNameFromParentComponent(c)
    \/ \E c \in DOMAIN comps : CallGetNameFromParent(c)

SpecTree == InitTree /\ [][NextTree]_vars

\* ---- the wiring ----------------------------------------------------------

InitWiring ==
    /\ HostIdle
    /\ PulseIdle
    /\ TreeIdle
    /\ OctaveIdle
    /\ wiring \in Wirings
    /\ last = NoCall

NextWiring ==
    \/ CallDefaultOctavePort
    \/ CallDefaultOctavePortIn
    \/ CallDefaultOctavePortOut

SpecWiring == InitWiring /\ [][NextWiring]_vars

\* ---- the octave converters -----------------------------------------------

InitOctave ==
    /\ HostIdle
    /\ PulseIdle
    /\ TreeIdle
    /\ WiringIdle
    /\ channels \in ChannelLists
    /\ LO_frequency \in [{UpConverter, DownConverter} -> {<<"None", 0>>, <<"number", 5>>}]
    /\ config = EmptyConfig
    /\ id = [c \in {UpConverter, DownConverter} |-> 1]
    /\ IF_output = [c \in {DownConverter} |-> <<1, 2>>]
    /\ last = NoCall

NextOctave ==
    \/ CallFindOpxOutputs
    \/ CallFindOpxInputs
    \/ UpApplyToConfig

SpecOctave == InitOctave /\ [][NextOctave]_vars

\* ---- up-converters applied to a config -----------------------------------

InitUpConverters ==
    /\ PulseIdle
    /\ TreeIdle
    /\ WiringIdle
    /\ HostIdle
    /\ channels \in UpChannelLists
    /\ LO_frequency \in
            {[c \in {UpConverter, UpConverter2} |-> IF c = UpConverter THEN a ELSE b] :
                a \in {<<"None", 0>>, <<"number", 5>>},
                b \in {<<"None", 0>>, <<"number", 6>>}}
    /\ config = EmptyConfig
    /\ id \in [{UpConverter, UpConverter2} -> {1, 2}]
    /\ IF_output = <<>>
    /\ last = NoCall

NextUpConverters == \E conv \in {UpConverter, UpConverter2} : ApplyUpConverter(conv)

SpecUpConverters == InitUpConverters /\ [][NextUpConverters]_vars

\* ---- down-converters applied to a config ---------------------------------

InitDownConverters ==
    /\ PulseIdle
    /\ TreeIdle
    /\ WiringIdle
    /\ HostIdle
    /\ channels \in DownChannelLists
    /\ LO_frequency \in
            {[c \in {DownConverter, DownConverter2} |->
                    IF c = DownConverter THEN a ELSE <<"number", 6>>] :
                a \in {<<"None", 0>>, <<"number", 5>>}}
    /\ config = EmptyConfig
    /\ id \in {[c \in {DownConverter, DownConverter2} |->
                    IF c = DownConverter THEN 1 ELSE k] : k \in {1, 2}}
    /\ IF_output \in
            {[c \in {DownConverter, DownConverter2} |->
                    IF c = DownConverter THEN a ELSE b] :
                a \in IFOutputs, b \in {<<1, 2>>, <<2, 1>>}}
    /\ last = NoCall

NextDownConverters ==
    \E conv \in {DownConverter, DownConverter2} : ApplyDownConverter(conv)

SpecDownConverters == InitDownConverters /\ [][NextDownConverters]_vars

\* ---- the frequency converters of an octave -------------------------------

InitConverters ==
    /\ PulseIdle
    /\ TreeIdle
    /\ WiringIdle
    /\ OctaveIdle
    /\ HostIdle
    /\ last = NoCall

NextConverters ==
    \/ InitializeFrequencyConverters
    \/ \E key \in 1..NumRFOutputs : SetRFOutput(key)
    \/ \E key \in 1..NumRFInputs : SetRFInput(key)

SpecConverters == InitConverters /\ [][NextConverters]_vars

\* ---- the root and its connection ----------------------------------------

InitRoot ==
    /\ PulseIdle
    /\ TreeIdle
    /\ WiringIdle
    /\ OctaveIdle
    /\ ConverterIdle
    /\ QubitIdle
    /\ FsIdle
    /\ GenerateIdle
    /\ ResetIdle
    /\ _qm = NoObject
    /\ _qmm = NoObject
    /\ _config = NoObject
    /\ octaves \in {<<>>, <<"octave1">>}
    /\ managers = <<>>
    /\ machines = <<>>
    /\ dicts = <<>>
    /\ last = NoCall

NextRoot ==
    \/ ReadConfig
    \/ ReadQmm
    \/ ReadQm
    \/ Execute
    \/ \E up \in BOOLEAN : CalibrateDriveMixer(up)
    \/ CloseQm
    \/ \E key \in ConfigKeys : SetConfigItem(key)

SpecRoot == InitRoot /\ [][NextRoot]_vars

\* ---- the qubit -----------------------------------------------------------

InitQubit ==
    /\ PulseIdle
    /\ TreeIdle
    /\ WiringIdle
    /\ OctaveIdle
    /\ ConverterIdle
    /\ FsIdle
    /\ RootIdle
    /\ GenerateIdle
    /\ ResetIdle
    /\ pulse_sets \in SUBSET PulseSets
    /\ T1 \in T1Values
    /\ thermalization_time_factor \in FactorValues
    /\ last = NoCall

NextQubit ==
    \/ \E ps \in PulseSets : QubitAddDrivePulses(ps)
    \/ \E gate_shape \in GateShapeNames : QubitSetDefaultGateShape(gate_shape)
    \/ ReadThermalizationTime
    \/ \E v \in T1Values : SetT1(v)

SpecQubit == InitQubit /\ [][NextQubit]_vars

\* ---- the data path of a device -------------------------------------------

InitInformation ==
    /\ PulseIdle
    /\ TreeIdle
    /\ WiringIdle
    /\ OctaveIdle
    /\ ConverterIdle
    /\ QubitIdle
    /\ RootIdle
    /\ GenerateIdle
    /\ ResetIdle
    /\ exists \in FileSystems
    /\ last = NoCall

NextInformation ==
    \/ \E device_name \in DeviceNames : \E data_folder_path \in DataFolders :
         \E main_drive_paths \in DrivePathLists :
            CallDataPathFromDeviceName(device_name, data_folder_path, main_drive_paths)
    \/ \E device_name \in DeviceNames : ReadSquidLabDataPath(device_name)

SpecInformation == InitInformation /\ [][NextInformation]_vars

\* ---- the root generated from a wiring -----------------------------------

InitGenerate ==
    /\ PulseIdle
    /\ TreeIdle
    /\ WiringIdle
    /\ OctaveIdle
    /\ ConverterIdle
    /\ QubitIdle
    /\ FsIdle
    /\ RootIdle
    /\ ResetIdle
    /\ arguments \in GenerateArguments
    /\ machine = NoMachine
    /\ last = NoCall

NextGenerate == GenerateEmptyQuamSingleFeedline

SpecGenerate == InitGenerate /\ [][NextGenerate]_vars

\* ---- the active reset of a qubit -----------------------------------------

InitActiveReset ==
    /\ PulseIdle
    /\ TreeIdle
    /\ WiringIdle
    /\ OctaveIdle
    /\ HostIdle
    /\ last = NoCall

ProgramStep ==
    \/ While
    \/ \E I \in IValues : Measure(I)
    \/ Wait
    \/ PlayX180
    \/ AssignCounter

NextActiveReset ==
    \/ \E tries \in TryCounts : \E threshold \in IValues : \E I \in IValues :
         ActiveReset(tries, threshold, I)
    \/ ProgramStep

SpecActiveReset == InitActiveReset /\ [][NextActiveReset]_vars

\* The processor runs a program it was given to its end: it never stops
\* between two statements.
FairActiveReset == SpecActiveReset /\ WF_vars(ProgramStep)

(***************************************************************************)
(* Claims about the pulse sets.                                            *)
(***************************************************************************)

AddSucceeded == last.op = "add_drive_pulses" /\ last.outcome = "ok"

\* The keys "<gate>_<pulse name>" of the pulse set of the last call.
DeclaredKeys == {g \o "_" \o last.ps : g \in GateSet(last.ps)}

\* C1: when add_drive_pulses succeeds, the operations it registers are
\* exactly the keys gate_name, one per declared gate: no other key is added
\* and no operation under another key is removed or replaced.
C1_ExactlyDeclaredGates ==
    AddSucceeded =>
        /\ DOMAIN operations = DOMAIN last.before \cup DeclaredKeys
        /\ Cardinality(DeclaredKeys) = Cardinality(GateSet(last.ps))
        /\ \A k \in DeclaredKeys : operations[k].kind = "pulse"
        /\ \A k \in DOMAIN last.before \ DeclaredKeys :
                operations[k] = last.before[k]

\* A successful call of a pulse set with two gates on a channel that already
\* holds default gate entries and pulses of another pulse set.
C1_Witness ==
    /\ AddSucceeded
    /\ Cardinality(GateSet(last.ps)) >= 2
    /\ \E k \in DOMAIN last.before \ DeclaredKeys : last.before[k].kind = "ref"
    /\ \E k \in DOMAIN last.before \ DeclaredKeys : last.before[k].kind = "pulse"
    /\ DeclaredKeys \cap DOMAIN last.before = {}

\* C2: a parameter key present both in a gate's individual parameters and in
\* the shared parameters is registered with the individual value.
C2_IndividualWins ==
    AddSucceeded =>
        \A g \in GateSet(last.ps) :
            \A p \in DOMAIN individual_pulse_parameters(last.ps)[g]
                        \cap DOMAIN shared_pulse_parameters(last.ps) :
                operations[g \o "_" \o last.ps].params[p]
                    = individual_pulse_parameters(last.ps)[g][p]

\* Some key of individual_pulse_parameters of the pulse set of the last call
\* is not a declared gate.
UndeclaredIndividualKey ==
    \E k \in DOMAIN individual_pulse_parameters(last.ps) :
        \A i \in 1..Len(Gates(last.ps)) : Gates(last.ps)[i] # k

\* C3: add_drive_pulses raises ValueError whenever some key of
\* individual_pulse_parameters is not a declared gate, and then the
\* channel's operations are what they were before the call.
C3_UndeclaredGateRaises ==
    (last.op = "add_drive_pulses" /\ UndeclaredIndividualKey) =>
        /\ last.outcome = "ValueError"
        /\ operations = last.before

\* A rejected call on a pulse set with declared gates, on a channel that
\* already holds operations.
C3_Witness ==
    /\ last.op = "add_drive_pulses"
    /\ UndeclaredIndividualKey
    /\ last.outcome = "ValueError"
    /\ Len(Gates(last.ps)) >= 1
    /\ Gates(last.ps)[1] \in DOMAIN individual_pulse_parameters(last.ps)
    /\ DOMAIN last.before # {}

\* The amplitude a DRAG gate reads now.
DragAmplitudeNow(g) ==
    IF g \in {"x90", "y90"} THEN fields["drag_gaussian"]["amplitude_90"]
    ELSE IF g \in {"x180", "y180"} THEN fields["drag_gaussian"]["amplitude_180"]
    ELSE 0 - fields["drag_gaussian"]["amplitude_90"]

\* The axis angle a DRAG gate reads now.
DragAxisAngleNow(g) ==
    IF g \in {"x90", "x180", "-x90"} THEN fields["drag_gaussian"]["phase_x"]
    ELSE fields["drag_gaussian"]["phase_y"]

DragGates == {"x90", "x180", "y90", "y180", "-x90", "-y90"}

DragSharedNames ==
    {"length", "sigma", "anharmonicity", "alpha", "detuning", "subtracted",
     "digital_marker"}

\* C4: the pulses registered by PulseSetDragGaussian hold references: after
\* any writes to the pulse set's fields, reading a parameter of a registered
\* pulse yields the pulse set's current value, and the amplitude of -x90 and
\* -y90 is the negation of the current amplitude_90.
C4_PulsesFollowFields ==
    \A g \in DragGates :
        LET k == g \o "_drag_gaussian"
        IN  (k \in DOMAIN operations /\ operations[k].kind = "pulse") =>
                /\ ReadParameter(operations[k], "amplitude") = DragAmplitudeNow(g)
                /\ ReadParameter(operations[k], "axis_angle") = DragAxisAngleNow(g)
                /\ \A p \in DragSharedNames :
                        ReadParameter(operations[k], p) = fields["drag_gaussian"][p]

\* Pulses registered, then written: amplitude_90 and a shared field differ
\* from the values they had when the pulses were registered.
C4_Witness ==
    /\ last.op = "write"
    /\ nwrites = 2
    /\ "-x90_drag_gaussian" \in DOMAIN operations
    /\ fields["drag_gaussian"]["amplitude_90"] = 2
    /\ fields["drag_gaussian"]["length"] = 0
    /\ ReadParameter(operations["-x90_drag_gaussian"], "amplitude") = 0 - 2

(***************************************************************************)
(* Claims about the name-from-parent helpers.                              *)
(***************************************************************************)

\* C7: for a component stored as a value of a dict parent,
\* key_from_parent_dict returns the key under which that very component is
\* stored, whatever entries were inserted and removed beside it (siblings
\* with identical field values included); it raises ValueError when the
\* component's parent is not a dict.
C7_KeyFromParentDict ==
    last.op = "key_from_parent_dict" =>
        /\ slot[last.c].where = "dict" =>
                /\ last.outcome = "ok"
                /\ last.ret = slot[last.c].key
                /\ \E i \in 1..Len(qubits) : qubits[i] = <<last.ret, last.c>>
        /\ comps[last.c].parent # "QuamDict" => last.outcome = "ValueError"

\* The key of a component that sits behind a sibling with identical field
\* values, in a dict from which another component was removed.
C7_Witness ==
    /\ last.op = "key_from_parent_dict"
    /\ last.outcome = "ok"
    /\ slot[last.c].where = "dict"
    /\ \E i, j \in 1..Len(qubits) :
            /\ i < j
            /\ qubits[j][2] = last.c
            /\ comps[qubits[i][2]].val = comps[last.c].val
    /\ \E d \in DOMAIN comps : comps[d].parent = "QuamDict" /\ slot[d] = Nowhere

\* C8: for a component stored in a list parent, index_from_parent_list
\* returns the component's current position after any appends and inserts
\* of other components (an insert before it raises the index by one, an
\* append or an insert after it leaves it); it raises ValueError when the
\* parent is not a list.
C8_IndexFromParentList ==
    last.op = "index_from_parent_list" =>
        /\ slot[last.c].where = "list" =>
                /\ last.outcome = "ok"
                /\ last.ret = slot[last.c].index
                /\ qubit_list[last.ret + 1] = last.c
        /\ comps[last.c].parent # "QuamList" => last.outcome = "ValueError"

\* The index of a component in front of which a component with identical
\* field values was inserted later, and behind which another was put.
C8_Witness ==
    /\ last.op = "index_from_parent_list"
    /\ last.outcome = "ok"
    /\ last.ret = 1
    /\ Len(qubit_list) = 3
    /\ qubit_list[1] > last.c
    /\ comps[qubit_list[1]].val = comps[last.c].val

\* The string Python's str gives for a key of root.qubits.
KeyString(k) == IF k[1] = "i" THEN ToString(k[2]) ELSE k[2]

DownReferrers ==
    {i \in 1..Len(channels) : channels[i].frequency_converter_down = DownConverter}

\* The channels that refer to the up-converter.
UpReferrers ==
    {i \in 1..Len(channels) : channels[i].frequency_converter_up = UpConverter}

\* C5: find_opx_inputs raises ValueError when no component refers to the
\* converter, and when two referring components differ in their I input
\* port or in their Q input port; it returns the I and Q input ports only
\* when some component refers to the converter and all that do have the
\* same I and the same Q port.
C5_FindOpxInputs ==
    last.op = "find_opx_inputs" =>
        /\ DownReferrers = {} => last.outcome = "ValueError"
        /\ (\E i, j \in DownReferrers :
                \/ channels[i].opx_input[1] # channels[j].opx_input[1]
                \/ channels[i].opx_input[2] # channels[j].opx_input[2])
            => last.outcome = "ValueError"
        /\ last.outcome = "ok" =>
                /\ DownReferrers # {}
                /\ \A i \in DownReferrers : channels[i].opx_input = last.ret

\* Two channels with the same input ports and different output ports refer
\* to the down-converter, and the ports are returned.
C5_Witness ==
    /\ last.op = "find_opx_inputs"
    /\ last.outcome = "ok"
    /\ Cardinality(DownReferrers) = 2
    /\ channels[1].opx_output # channels[2].opx_output

\* C6: port discovery of an up-converter fails when no IQ channel has
\* frequency_converter_up equal to the converter, and when two IQ channels
\* with different output ports both refer to it; it yields a channel's
\* output ports only when the match is unique (here: when every channel
\* that refers to the converter has the ports that are yielded). Stated of
\* the port discovery that apply_to_config makes once the LO_frequency and
\* the id have passed their checks.
C6_UniqueUpChannel ==
    (/\ last.op = "up.apply_to_config"
     /\ IsNumber(LO_frequency[UpConverter])
     /\ ConverterId(UpConverter) \notin DOMAIN last.before.RF_outputs) =>
        /\ UpReferrers = {} => last.outcome # "ok"
        /\ (\E i, j \in UpReferrers : channels[i].opx_output # channels[j].opx_output)
            => last.outcome # "ok"
        /\ last.outcome = "ok" =>
                /\ UpReferrers # {}
                /\ \A i \in UpReferrers :
                        /\ channels[i].opx_output[1]
                            = config.RF_outputs[ConverterId(UpConverter)].I_connection
                        /\ channels[i].opx_output[2]
                            = config.RF_outputs[ConverterId(UpConverter)].Q_connection

\* The pair of ports the last call of a wiring method works on.
PairOfLastCall ==
    IF last.op = "default_octave_port" THEN <<wiring.port_I, wiring.port_Q>>
    ELSE IF last.op = "default_octave_port_in" THEN <<wiring.output_I, wiring.output_Q>>
    ELSE <<wiring.input_I, wiring.input_Q>>

WiringMethods ==
    {"default_octave_port", "default_octave_port_in", "default_octave_port_out"}

\* C10: for every controller c and every k in 1..5 the default octave port
\* of the ports (c, 2k-1), (c, 2k) is k: from default_octave_port, from
\* default_octave_port_in on the output pair and from
\* default_octave_port_out on the input pair.
C10_DefaultOctavePort ==
    last.op \in WiringMethods =>
        \A k \in 1..5 :
            (/\ PairOfLastCall[1][1] = PairOfLastCall[2][1]
             /\ PairOfLastCall[1][2] = 2 * k - 1
             /\ PairOfLastCall[2][2] = 2 * k)
            => (last.outcome = "ok" /\ last.ret = k)

\* default_octave_port_in gives 5 for the outputs (con2, 9), (con2, 10) of a
\* feed line whose inputs are (con1, 1), (con1, 2).
C10_Witness ==
    /\ last.op = "default_octave_port_in"
    /\ wiring.output_I = <<"con2", 9>>
    /\ wiring.output_Q = <<"con2", 10>>
    /\ wiring.input_I = <<"con1", 1>>
    /\ wiring.input_Q = <<"con1", 2>>
    /\ last.outcome = "ok"
    /\ last.ret = 5

\* The pair of the last call is not a pair an octave port can be derived
\* from.
MalformedPair ==
    \/ PairOfLastCall[1][1] # PairOfLastCall[2][1]
    \/ PairOfLastCall[1][2] % 2 = 0
    \/ PairOfLastCall[2][2] # PairOfLastCall[1][2] + 1

\* C11: _default_octave_port raises ValueError, and returns no port,
\* exactly when the two ports name different controllers, or port I is an
\* even number, or port Q is not port I + 1; for every other pair of ports
\* it returns a value (an octave port).
C11_RaisesExactlyWhenMalformed ==
    last.op \in WiringMethods =>
        /\ MalformedPair => (last.outcome = "ValueError" /\ last.ret = 0)
        /\ ~MalformedPair => (last.outcome = "ok" /\ last.ret \in 1..(NumPorts \div 2))

\* default_octave_port raises for the ports (con1, 3), (con2, 4), which
\* differ in the controller only.
C11_Witness ==
    /\ last.op = "default_octave_port"
    /\ wiring.port_I = <<"con1", 3>>
    /\ wiring.port_Q = <<"con2", 4>>
    /\ last.outcome = "ValueError"

(***************************************************************************)
(* Claims about the root.                                                  *)
(***************************************************************************)

\* The calls that read root.qm.
QmReads == {"qm", "execute", "calibrate_drive_mixer"}

C14_OneFeedLineOneQubitPerDriveLine ==
    last.op = "generate_empty_quam_single_feedline" =>
        /\ Len(arguments.wiring.feed_lines) # 1 =>
                /\ last.outcome = "ValueError"
                /\ last.built = NoMachine
                /\ machine = NoMachine
        /\ last.outcome = "ok" =>
                /\ Len(arguments.wiring.feed_lines) = 1
                /\ machine = last.built
                /\ KeysOf(machine.qubits) = KeysOf(arguments.wiring.drive_lines)
                /\ Len(machine.qubits) = Len(arguments.wiring.drive_lines)

\* A root with the qubits q2 and q1 is generated from a wiring with one feed
\* line and the drive lines q2 and q1.
C14_Witness ==
    /\ last.op = "generate_empty_quam_single_feedline"
    /\ last.outcome = "ok"
    /\ Len(arguments.wiring.feed_lines) = 1
    /\ Len(arguments.wiring.drive_lines) = 2
    /\ arguments.wiring.drive_lines[1][1] = "q2"
    /\ KeysOf(machine.qubits) = {"q1", "q2"}

(***************************************************************************)
(* Claims about the qubit.                                                 *)
(***************************************************************************)

\* C15: ScQubit.set_default_gate_shape(name) raises ValueError when name is
\* not a key of the qubit's pulse_sets, and then the operations of the
\* qubit's xy channel are unchanged; when name is a key it does what that
\* pulse set's set_as_default_gate_shape does, with its outcome.
C15_UndefinedGateShapeRaises ==
    last.op = "qubit.set_default_gate_shape" =>
        /\ pulse_sets = last.before.pulse_sets
        /\ last.gate_shape \notin pulse_sets =>
                /\ last.outcome = "ValueError"
                /\ operations = last.before.operations
        /\ last.gate_shape \in pulse_sets =>
                /\ last.outcome
                    = set_as_default_gate_shape(last.gate_shape,
                                                last.before.operations).outcome
                /\ operations
                    = set_as_default_gate_shape(last.gate_shape,
                                                last.before.operations).ops

\* A qubit with the pulse set drag_gaussian only, and pulses on its xy
\* channel, is asked for flattop_cosine.
C15_Witness ==
    /\ last.op = "qubit.set_default_gate_shape"
    /\ last.gate_shape = "flattop_cosine"
    /\ pulse_sets = {"drag_gaussian"}
    /\ operations # <<>>
    /\ last.outcome = "ValueError"

\* C16: ScQubit.thermalization_time raises ValueError when T1 is None and
\* otherwise returns thermalization_time_factor * T1; reading it never
\* changes the qubit.
C16_ThermalizationTime ==
    last.op = "thermalization_time" =>
        /\ last.before = QubitState
        /\ T1[1] = "None" => last.outcome = "ValueError"
        /\ T1[1] # "None" =>
                /\ last.outcome = "ok"
                /\ last.ret = thermalization_time_factor * T1[2]

\* T1 is None and the read raises.
C16_Witness ==
    /\ last.op = "thermalization_time"
    /\ T1 = <<"None", 0>>
    /\ thermalization_time_factor = 5
    /\ last.outcome = "ValueError"

(***************************************************************************)
(* Claims about the data path.                                             *)
(***************************************************************************)

\* The positions of the paths of the last call's main_drive_paths that
\* exist.
ExistingDrivePaths ==
    {i \in 1..Len(last.main_drive_paths) : <<last.main_drive_paths[i]>> \in exists}

\* The first path of the last call's main_drive_paths that exists.
ChosenDrive ==
    last.main_drive_paths[CHOOSE i \in ExistingDrivePaths :
                                \A j \in ExistingDrivePaths : i <= j]

\* C17: data_path_from_device_name raises FileNotFoundError when none of
\* the paths in main_drive_paths exists or when the data folder does not
\* exist under the chosen drive; otherwise it returns
\* <d>/<data_folder_path>/<device_name>/OPX Data where d is the first path
\* of the main_drive_paths argument that exists.
C17_DataPathOfFirstExistingDrive ==
    last.op = "data_path_from_device_name" =>
        IF ExistingDrivePaths = {}
        THEN last.outcome = "FileNotFoundError"
        ELSE IF <<ChosenDrive, last.data_folder_path>> \notin exists
        THEN last.outcome = "FileNotFoundError"
        ELSE /\ last.outcome = "ok"
             /\ last.ret = ChosenDrive \o "/" \o last.data_folder_path \o "/"
                            \o last.device_name \o "/OPX Data"

(***************************************************************************)
(* Claims about the frequency converters of an octave.                     *)
(***************************************************************************)

\* The converters initialize_frequency_converters makes are in place: an
\* up-converter with id k under each key k of 1..5 and nothing else, a
\* down-converter with id k under each key k of 1..2 and nothing else.
DefaultConvertersInPlace(o) ==
    /\ DOMAIN o.RF_outputs = 1..5
    /\ \A k \in 1..5 : o.RF_outputs[k] = ConverterWithId("OctaveUpConverterSQuID", k)
    /\ DOMAIN o.RF_inputs = 1..2
    /\ \A k \in 1..2 : o.RF_inputs[k] = ConverterWithId("OctaveDownConverterSQuID", k)

\* The last call of initialize_frequency_converters raised and changed
\* nothing when RF_outputs or RF_inputs was non-empty, and on an octave with
\* both empty it made the converters under exactly the keys 1..5 and 1..2.
InitializedOrRaised ==
    last.op = "initialize_frequency_converters" =>
        /\ (DOMAIN last.before.RF_outputs # {} \/ DOMAIN last.before.RF_inputs # {}) =>
                /\ last.outcome = "ValueError"
                /\ OctaveState = last.before
        /\ (DOMAIN last.before.RF_outputs = {} /\ DOMAIN last.before.RF_inputs = {}) =>
                /\ last.outcome = "ok"
                /\ DefaultConvertersInPlace(OctaveState)

\* A call that follows a call that succeeded raises and leaves the
\* converters of the first call in place.
SecondCallRaises ==
    (/\ last.op = "initialize_frequency_converters"
     /\ last.outcome = "ok"
     /\ last'.op = "initialize_frequency_converters") =>
        /\ last'.outcome = "ValueError"
        /\ DefaultConvertersInPlace(OctaveState')

\* C18: initialize_frequency_converters raises ValueError and changes
\* nothing when RF_outputs or RF_inputs is non-empty; on an octave with both
\* empty it creates up-converters under exactly the keys 1..5 and
\* down-converters under exactly the keys 1..2, so a second call on the same
\* octave always raises and leaves the converters of the first call in
\* place.
C18_InitializeOnlyWhenEmpty == []InitializedOrRaised /\ [][SecondCallRaises]_vars

\* The second of two calls on an octave: it raises, and the converters of
\* the first call are in place.
C18_Witness ==
    /\ last.op = "initialize_frequency_converters"
    /\ last.outcome = "ValueError"
    /\ DefaultConvertersInPlace(last.before)
    /\ DefaultConvertersInPlace(OctaveState)

(***************************************************************************)
(* Claims about the converters applied to a config.                        *)
(***************************************************************************)

\* C19: OctaveUpConverterSQuID.apply_to_config raises ValueError when
\* LO_frequency is not a number, and (the LO_frequency being a number)
\* raises KeyError when the octave's RF_outputs section of the config
\* already has an entry under the converter's id, so applying two
\* up-converters with the same id of one octave to one config never
\* overwrites the first entry: every entry the section had before a call is
\* there unchanged after it.
C19_UpEntryNeverOverwritten ==
    last.op = "up.apply_to_config" =>
        /\ LO_frequency[last.conv][1] # "number" => last.outcome = "ValueError"
        /\ (/\ LO_frequency[last.conv][1] = "number"
            /\ id[last.conv] \in DOMAIN last.before.RF_outputs)
                => last.outcome = "KeyError"
        /\ \A k \in DOMAIN last.before.RF_outputs :
                /\ k \in DOMAIN config.RF_outputs
                /\ config.RF_outputs[k] = last.before.RF_outputs[k]

\* The second up-converter has the id of the first, whose entry is in the
\* config with its LO frequency 5; applying the second, with LO frequency
\* 6, raises KeyError.
C19_Witness ==
    /\ last.op = "up.apply_to_config"
    /\ last.conv = UpConverter2
    /\ id[UpConverter2] = id[UpConverter]
    /\ LO_frequency[UpConverter2] = <<"number", 6>>
    /\ last.outcome = "KeyError"
    /\ config.RF_outputs[id[UpConverter]].LO_frequency = <<"number", 5>>

\* The label of an IF output.
LabelOf(n) == IF n = 1 THEN "IF_out1" ELSE "IF_out2"

\* The OPX input ports of the channels that refer to the converter of the
\* last call, when there are such channels and they agree.
PortsOfLastConverter ==
    LET referrers == {i \in 1..Len(channels) :
                        channels[i].frequency_converter_down = last.conv}
    IN  IF referrers = {} THEN None
        ELSE IF \E i, j \in referrers : channels[i].opx_input # channels[j].opx_input
        THEN None
        ELSE channels[CHOOSE i \in referrers : TRUE].opx_input

\* The last call got as far as assigning its IF outputs.
ReachedAssignment ==
    /\ LO_frequency[last.conv][1] = "number"
    /\ id[last.conv] \notin DOMAIN last.before.RF_inputs
    /\ PortsOfLastConverter # None

\* One of the two labels of the last call is assigned to another port than
\* the call's: by an earlier call, or by the I output of this call.
LabelTaken ==
    LET I == LabelOf(IF_output[last.conv][1])
        Q == LabelOf(IF_output[last.conv][2])
        was == last.before.IF_outputs
    IN  \/ I \in DOMAIN was /\ was[I].port # PortsOfLastConverter[1]
        \/ Q \in DOMAIN was /\ was[Q].port # PortsOfLastConverter[2]
        \/ I = Q /\ PortsOfLastConverter[1] # PortsOfLastConverter[2]

\* C20: OctaveDownConverterSQuID.apply_to_config assigns each IF output
\* label IF_out<n> to an OPX input port at most once per config: an
\* assignment the config has before a call is there unchanged after it, and
\* when a label of the call is already assigned to a different port (by an
\* earlier converter, or because IF_output_I equals IF_output_Q while the I
\* and Q ports differ) the call raises ValueError; otherwise the call
\* succeeds and its labels are assigned to its ports.
C20_IFOutputAssignedOnce ==
    last.op = "down.apply_to_config" =>
        /\ \A label \in DOMAIN last.before.IF_outputs :
                /\ label \in DOMAIN config.IF_outputs
                /\ config.IF_outputs[label] = last.before.IF_outputs[label]
        /\ (ReachedAssignment /\ LabelTaken) => last.outcome = "ValueError"
        /\ (ReachedAssignment /\ ~LabelTaken) =>
                /\ last.outcome = "ok"
                /\ config.IF_outputs[LabelOf(IF_output[last.conv][1])].port
                    = PortsOfLastConverter[1]
                /\ config.IF_outputs[LabelOf(IF_output[last.conv][2])].port
                    = PortsOfLastConverter[2]

\* The second down-converter is applied after the first; its I output has
\* the label the first one assigned to another port, the call raises and
\* the label keeps the port of the first.
C20_Witness ==
    /\ last.op = "down.apply_to_config"
    /\ last.conv = DownConverter2
    /\ id[DownConverter2] # id[DownConverter]
    /\ id[DownConverter] \in DOMAIN last.before.RF_inputs
    /\ last.outcome = "ValueError"
    /\ PortsOfLastConverter # None
    /\ LabelOf(IF_output[DownConverter2][1]) \in DOMAIN last.before.IF_outputs
    /\ config.IF_outputs[LabelOf(IF_output[DownConverter2][1])].port
            # PortsOfLastConverter[1]

(***************************************************************************)
(* Claims about the active reset.                                          *)
(***************************************************************************)
NumberOf(e, s) == Cardinality({i \in 1..Len(s) : s[i] = e})

\* What may follow an event of the program.
MayFollow(e) ==
    CASE e = "measure" -> {"wait"}
      [] e = "wait" -> {"x180", "assign"}
      [] e = "x180" -> {"assign"}
      [] e = "assign" -> {"measure"}

IterationsInOrder ==
    /\ events # <<>> => events[1] = "measure"
    /\ \A i \in 1..(Len(events) - 1) : events[i + 1] \in MayFollow(events[i])

CounterCountsIterations ==
    /\ counter \in 0..max_tries
    /\ NumberOf("measure", events) <= max_tries
    /\ counter = NumberOf("assign", events)
    /\ pc = "done" => counter = NumberOf("measure", events)

PlayedOnlyAboveThreshold ==
    (Len(events') = Len(events) + 1 /\ events'[Len(events')] = "x180")
        => I_reset > threshold_g

\* C21: the loop of active_reset ends after at most max_tries iterations;
\* each iteration measures, waits, plays x180 only when I_reset is above
\* threshold_g, and then increments the counter; the counter returned is the
\* number of iterations made and lies between 0 and max_tries.
C21_ActiveResetTerminates ==
    /\ [](IterationsInOrder /\ CounterCountsIterations)
    /\ [][PlayedOnlyAboveThreshold]_vars
    /\ (pc = "while") ~> (pc = "done")

\* A reset that used all its tries and played the pulse each time.
C21_Witness ==
    /\ pc = "done"
    /\ max_tries >= 2
    /\ counter = max_tries
    /\ NumberOf("x180", events) = max_tries

(***************************************************************************)
(* Claims about the default gate shape of a channel.                       *)
(***************************************************************************)
SetAsDefaultReturned ==
    last.op = "set_as_default_gate_shape" /\ last.outcome = "ok"

\* Every pulse of pulse set ps is an operation in ops.
PulsesRegistered(ps, ops) ==
    \A g \in GateSet(ps) : (g \o "_" \o ps) \in DOMAIN ops

DefaultEntriesSet ==
    \A g \in GateSet(last.ps) :
        /\ g \in DOMAIN operations
        /\ operations[g].kind = "ref"
        /\ operations[g].ref = "#./" \o g \o "_" \o last.ps

OtherOperationsKept ==
    \A k \in (DOMAIN last.before \cup DOMAIN operations) \ GateSet(last.ps) :
        /\ k \in DOMAIN last.before
        /\ k \in DOMAIN operations
        /\ operations[k] = last.before[k]

SecondCallChangesNothing ==
    (/\ SetAsDefaultReturned
     /\ last'.op = "set_as_default_gate_shape"
     /\ last'.ps = last.ps)
        => (last'.outcome = "ok" /\ operations' = operations)

C23_DefaultEntriesExist ==
    \A g \in DOMAIN operations :
        operations[g].kind = "ref" =>
            \E k \in DOMAIN operations : operations[g].ref = "#./" \o k

\* C24: when add_drive_pulses raises, the operations of the channel are what
\* they were before the call.
C24_AddDrivePulsesAllOrNothing ==
    (last.op = "add_drive_pulses" /\ last.outcome # "ok")
        => operations = last.before

(***************************************************************************)
(* Claims about closing the machine of a root.                             *)
(***************************************************************************)

\* C25: close_qm on a root that has no machine constructs no manager, opens
\* no machine and leaves the root without a machine.
C25_CloseOpensNothing ==
    (last.op = "close_qm" /\ last.before._qm = NoObject)
        => /\ managers = last.before.managers
           /\ machines = last.before.machines
           /\ _qm = NoObject

\* C26: the machine a read of root.qm returns, or an execute runs on, is one
\* on which close() has not been called.
C26_NoClosedMachineHandedOut ==
    (last.op \in {"qm", "execute"} /\ last.outcome = "ok")
        => ~machines[last.ret].closed

(***************************************************************************)
(* Claims about a converter's apply_to_config that raises.                 *)
(***************************************************************************)

\* C27: when apply_to_config of an up- or a down-converter raises, the
\* config is what it was before the call.
C27_ConfigUnchangedOnRaise ==
    (/\ last.op \in {"up.apply_to_config", "down.apply_to_config"}
     /\ last.outcome # "ok")
        => config = last.before

=============================================================================
